---- MODULE Spec2Model ----
(***************************************************************************)
(* Model of StardeWiki/build_wiki_db.py: the chunker (normalize_ws,        *)
(* flatten_sections_to_blocks, chunk_blocks), the embedding manager        *)
(* (embed_texts, vec_to_blob_f32, ensure_model_row, insert_embeddings) and *)
(* the per-page reconciliation loop of build_database over the SQLite      *)
(* store (page / chunk / embedding_model / embedding).                     *)
(*                                                                         *)
(* Strings are run-length encoded: a string is a sequence of runs          *)
(* <<c, n>> (character c repeated n >= 1 times) in which adjacent runs     *)
(* carry different characters.  The encoding is exact, so lengths, slices  *)
(* and the two regular expressions of normalize_ws are computed, not       *)
(* approximated, at the real thresholds (1200 / 300 characters).           *)
(***************************************************************************)
EXTENDS Integers, Sequences, FiniteSets, TLC

\* ------------------------------------------------------------------------
\* Bounds of the model
\* ------------------------------------------------------------------------
MaxSections == 3      \* sections per page document in the chunker runs
MaxFiles == 2         \* page documents enumerated by one build
MaxRuns == 2          \* invocations of build_database on the same folder

\* ------------------------------------------------------------------------
\* Config (build_wiki_db.py:23-26, 153)
\* ------------------------------------------------------------------------
MAX_CHARS_PER_CHUNK == 1200
MIN_CHARS_PER_CHUNK == 300
BATCH_SIZE == 32

SP == " "
TAB == "\t"
NL == "\n"
WS == {SP, TAB, NL}

JOINER == << <<NL, 2>> >>

\* Python's None, kept apart from every string (no string has a run of 0).
None == << <<"None", 0>> >>

\* the literal "Intro", "Unknown", "p", "mixed", "cosine"
Intro == << <<"I", 1>>, <<"n", 1>>, <<"t", 1>>, <<"r", 1>>, <<"o", 1>> >>
Unknown == << <<"U", 1>>, <<"n", 1>>, <<"k", 1>>, <<"n", 1>>, <<"o", 1>>, <<"w", 1>>, <<"n", 1>> >>
TypeP == << <<"p", 1>> >>
TypeMixed == << <<"m", 1>>, <<"i", 1>>, <<"x", 1>>, <<"e", 1>>, <<"d", 1>> >>

\* ------------------------------------------------------------------------
\* Strings
\* ------------------------------------------------------------------------
Min(a, b) == IF a <= b THEN a ELSE b

\* len(s)
RECURSIVE StrLen(_)
StrLen(s) == IF s = <<>> THEN 0 ELSE Head(s)[2] + StrLen(Tail(s))

\* adjacent runs of one character are one run
RECURSIVE Canon(_)
Canon(s) ==
  IF Len(s) <= 1 THEN s
  ELSE LET rest == Canon(Tail(s)) IN
       IF Head(s)[1] = Head(rest)[1]
       THEN << <<Head(s)[1], Head(s)[2] + Head(rest)[2]>> >> \o Tail(rest)
       ELSE << Head(s) >> \o rest

\* s + t
Concat(s, t) == Canon(s \o t)

\* s[a:b] for 0 <= a <= b
RECURSIVE Slice(_, _, _)
Slice(s, a, b) ==
  IF s = <<>> \/ b <= 0 THEN <<>>
  ELSE LET c == Head(s)[1]
           n == Head(s)[2]
       IN IF a >= n THEN Slice(Tail(s), a - n, b - n)
          ELSE << <<c, Min(n, b) - a>> >> \o Slice(Tail(s), 0, b - n)

\* re.sub(r"[ \t]+", " ", s)
RECURSIVE SubSpaces(_)
SubSpaces(s) ==
  IF s = <<>> THEN <<>>
  ELSE LET rest == SubSpaces(Tail(s)) IN
       IF Head(s)[1] \in {SP, TAB}
       THEN IF rest # <<>> /\ Head(rest) = <<SP, 1>> THEN rest
            ELSE << <<SP, 1>> >> \o rest
       ELSE << Head(s) >> \o rest

\* re.sub(r"\n{3,}", "\n\n", s)
SubNewlines(s) ==
  [k \in 1..Len(s) |-> IF s[k][1] = NL /\ s[k][2] >= 3 THEN <<NL, 2>> ELSE s[k]]

RECURSIVE LStrip(_)
LStrip(s) == IF s # <<>> /\ Head(s)[1] \in WS THEN LStrip(Tail(s)) ELSE s

RECURSIVE RStrip(_)
RStrip(s) ==
  IF s # <<>> /\ s[Len(s)][1] \in WS THEN RStrip(SubSeq(s, 1, Len(s) - 1)) ELSE s

\* s.strip()
Strip(s) == RStrip(LStrip(s))

normalize_ws(s) == Strip(SubNewlines(SubSpaces(s)))

\* JOINER.join(texts)
RECURSIVE Join(_)
Join(texts) ==
  IF texts = <<>> THEN <<>>
  ELSE IF Len(texts) = 1 THEN texts[1]
  ELSE Concat(Concat(texts[1], JOINER), Join(Tail(texts)))

\* truthiness of an Optional[str], and "x or default"
Truthy(x) == x # None /\ x # <<>>
OrElse(x, d) == IF Truthy(x) THEN x ELSE d

\* ------------------------------------------------------------------------
\* flatten_sections_to_blocks (build_wiki_db.py:62-76)
\* A page document is [pageid, revid, title, sections]; a section is
\* [heading, blocks]; a block is [type, text].  An absent key is None; an
\* absent "sections" or "blocks" list is the empty list (x or []).
\* ------------------------------------------------------------------------
RECURSIVE FlattenBlocks(_, _)
FlattenBlocks(heading, bs) ==
  IF bs = <<>> THEN <<>>
  ELSE LET b == Head(bs)
           btype == Strip(OrElse(b.type, TypeP))
           text == normalize_ws(OrElse(b.text, <<>>))
       IN (IF text # <<>>
           THEN << [section |-> heading, block_type |-> btype, text |-> text] >>
           ELSE <<>>) \o FlattenBlocks(heading, Tail(bs))

RECURSIVE FlattenSections(_)
FlattenSections(secs) ==
  IF secs = <<>> THEN <<>>
  ELSE LET sec == Head(secs)
           heading == Strip(OrElse(sec.heading, Intro))
       IN FlattenBlocks(heading, sec.blocks) \o FlattenSections(Tail(secs))

flatten_sections_to_blocks(page) == FlattenSections(page.sections)

\* ------------------------------------------------------------------------
\* chunk_blocks (build_wiki_db.py:78-147)
\* The closure state is [chunks, buf_texts, buf_section, buf_type]; a chunk
\* is [chunk_index, section, block_type, text].
\* ------------------------------------------------------------------------
ChunkInit == [chunks |-> <<>>, buf_texts |-> <<>>, buf_section |-> None, buf_type |-> None]

flush(st) ==
  IF st.buf_texts = <<>> THEN st
  ELSE LET text == normalize_ws(Join(st.buf_texts))
           chunk == [chunk_index |-> Len(st.chunks),
                     section |-> OrElse(st.buf_section, Intro),
                     block_type |-> OrElse(st.buf_type, TypeMixed),
                     text |-> text]
       IN [chunks |-> IF text # <<>> THEN Append(st.chunks, chunk) ELSE st.chunks,
           buf_texts |-> <<>>, buf_section |-> None, buf_type |-> None]

\* the while loop that cuts one oversized block into pieces
RECURSIVE SplitBlock(_, _, _)
SplitBlock(chunks, blk, start) ==
  IF start < StrLen(blk.text)
  THEN LET piece == normalize_ws(Slice(blk.text, start, start + MAX_CHARS_PER_CHUNK))
           chunk == [chunk_index |-> Len(chunks), section |-> blk.section,
                     block_type |-> blk.block_type, text |-> piece]
       IN SplitBlock(IF piece # <<>> THEN Append(chunks, chunk) ELSE chunks,
                     blk, start + MAX_CHARS_PER_CHUNK)
  ELSE chunks

\* one iteration of "for blk in blocks"
ChunkStep(st0, blk) ==
  LET st == IF st0.buf_texts = <<>>
            THEN [st0 EXCEPT !.buf_section = blk.section, !.buf_type = blk.block_type]
            ELSE st0
      candidate == normalize_ws(Join(Append(st.buf_texts, blk.text)))
  IN IF StrLen(candidate) <= MAX_CHARS_PER_CHUNK
     THEN [st EXCEPT !.buf_texts = Append(st.buf_texts, blk.text)]
     ELSE LET fl == flush(st) IN
          IF StrLen(blk.text) > MAX_CHARS_PER_CHUNK
          THEN [fl EXCEPT !.chunks = SplitBlock(fl.chunks, blk, 0)]
          ELSE [fl EXCEPT !.buf_section = blk.section, !.buf_type = blk.block_type,
                          !.buf_texts = << blk.text >>]

RECURSIVE ChunkLoop(_, _)
ChunkLoop(st, blocks) ==
  IF blocks = <<>> THEN st ELSE ChunkLoop(ChunkStep(st, Head(blocks)), Tail(blocks))

\* the chunks before the post-pass (after the final flush of line 134)
PackedChunks(blocks) == flush(ChunkLoop(ChunkInit, blocks)).chunks

\* "if merged and len(txt) < MIN_CHARS_PER_CHUNK"
\* variant: the predecessor test is off by one
MergeCondSkipsSecond(merged, txt) ==
  Len(merged) > 1 /\ StrLen(txt) < MIN_CHARS_PER_CHUNK

MergeCond(merged, txt) ==
  merged # <<>> /\ StrLen(txt) < MIN_CHARS_PER_CHUNK

\* variant: the two operands exchanged
MergeTextSwapped(p_txt, txt) == normalize_ws(Concat(Concat(txt, JOINER), p_txt))

\* normalize_ws(p_txt + JOINER + txt)
MergeText(p_txt, txt) == normalize_ws(Concat(Concat(p_txt, JOINER), txt))

RECURSIVE MergePass(_, _)
MergePass(chunks, merged) ==
  IF chunks = <<>> THEN merged
  ELSE LET c == Head(chunks) IN
       IF MergeCond(merged, c.text)
       THEN MergePass(Tail(chunks),
              [merged EXCEPT ![Len(merged)].text = MergeText(merged[Len(merged)].text, c.text)])
       ELSE MergePass(Tail(chunks), Append(merged, c))

\* variant: the indices given before the post-pass are kept
ReindexKeepsOld(merged) == merged

\* [(i, sec, bt, txt) for i, (_, sec, bt, txt) in enumerate(merged)]
Reindex(merged) ==
  [k \in 1..Len(merged) |-> [merged[k] EXCEPT !.chunk_index = k - 1]]

chunk_blocks(blocks) == Reindex(MergePass(PackedChunks(blocks), <<>>))

\* ------------------------------------------------------------------------
\* Inputs of the chunker runs: page documents of up to MaxSections sections
\* ------------------------------------------------------------------------
Rep(c, n) == << <<c, n>> >>

TypeUl == << <<"u", 1>>, <<"l", 1>> >>
TypeTable == << <<"t", 1>>, <<"b", 1>> >>

SectionChoices ==
  { [heading |-> Rep("H", 5),
     blocks |-> << [type |-> TypeP, text |-> Rep("a", 1100)] >>],
    [heading |-> None,
     blocks |-> << [type |-> TypeUl, text |-> Rep("b", 200)] >>],
    [heading |-> Rep(SP, 2),
     blocks |-> << [type |-> None, text |-> Rep("c", 5000)] >>],
    [heading |-> <<>>,
     blocks |-> << [type |-> TypeP, text |-> Rep("d", 50)],
                   [type |-> TypeP, text |-> << <<SP, 2>>, <<TAB, 1>>, <<SP, 1>> >>],
                   [type |-> TypeTable,
                    text |-> << <<"e", 400>>, <<SP, 1>>, <<TAB, 2>>, <<"f", 500>>,
                                <<NL, 4>>, <<"g", 100>>, <<NL, 1>> >>] >>],
    [heading |-> Rep("J", 4),
     blocks |-> << [type |-> TypeP,
                    text |-> << <<"i", 1199>>, <<SP, 1>>, <<"j", 301>> >>] >>],
    [heading |-> << <<SP, 1>>, <<"K", 3>>, <<SP, 1>> >>,
     blocks |-> << [type |-> TypeUl, text |-> Rep("k", 300)] >>],
    [heading |-> Rep("L", 2),
     blocks |-> << [type |-> TypeP, text |-> Rep("l", 1200)],
                   [type |-> TypeP, text |-> None] >>],
    [heading |-> Rep("M", 2),
     blocks |-> << [type |-> TypeP, text |-> Rep("m", 1201)] >>],
    [heading |-> Rep("N", 2), blocks |-> <<>>] }

SeqsUpTo(S, n) == UNION { [1..k -> S] : k \in 0..n }

ChunkerPages == { [sections |-> secs] : secs \in SeqsUpTo(SectionChoices, MaxSections) }

\* ------------------------------------------------------------------------
\* State
\* ------------------------------------------------------------------------
VARIABLES
  ck_page,        \* chunker run: the page document
  ck_blocks,      \* chunker run: result of flatten_sections_to_blocks
  ck_chunks,      \* chunker run: result of chunk_blocks
  ck_pc,          \* chunker run: "start", "flat", "done"
  files,          \* build: the enumerated page documents (list(iter_page_json_files))
  do_embed,       \* build: the do_embed argument
  db,             \* build: the SQLite store as the connection sees it between pages
  run,            \* build: which invocation of build_database this is
  i,              \* build: position of the for loop in files (1-based)
  pc,             \* build: "loop", "done", "crashed"
  updated_pages,  \* build: local counter
  skipped_pages,  \* build: local counter
  errored,        \* build: number of [ERROR] lines printed in this run
  stmts,          \* build: statements executed in this run [begins, writes]
  prev,           \* build: the store and outcome at the end of the preceding run
  last_exc        \* build: what raised in the latest iteration ("none" if nothing)

ckvars == <<ck_page, ck_blocks, ck_chunks, ck_pc>>
bvars == <<files, do_embed, db, run, i, pc, updated_pages, skipped_pages, errored, stmts, prev,
          last_exc>>
vars == <<ck_page, ck_blocks, ck_chunks, ck_pc,
          files, do_embed, db, run, i, pc, updated_pages, skipped_pages, errored, stmts, prev,
          last_exc>>

EmptyDb ==
  [page |-> {}, chunk |-> {}, embedding_model |-> {}, embedding |-> {},
   seq_chunk |-> 0, seq_model |-> 0]

BuildIdle ==
  /\ files = <<>>
  /\ do_embed = FALSE
  /\ db = EmptyDb
  /\ run = 1
  /\ i = 1
  /\ pc = "idle"
  /\ updated_pages = 0
  /\ skipped_pages = 0
  /\ errored = 0
  /\ stmts = [begins |-> 0, writes |-> 0]
  /\ prev = [db |-> EmptyDb, clean |-> FALSE]
  /\ last_exc = "none"

\* ------------------------------------------------------------------------
\* Chunker runs: flatten one page document, then chunk its blocks
\* ------------------------------------------------------------------------
InitChunker ==
  /\ ck_page \in ChunkerPages
  /\ ck_blocks = <<>>
  /\ ck_chunks = <<>>
  /\ ck_pc = "start"
  /\ BuildIdle

CkFlatten ==
  /\ ck_pc = "start"
  /\ ck_blocks' = flatten_sections_to_blocks(ck_page)
  /\ ck_pc' = "flat"
  /\ UNCHANGED <<ck_page, ck_chunks>>
  /\ UNCHANGED bvars

CkChunk ==
  /\ ck_pc = "flat"
  /\ ck_chunks' = chunk_blocks(ck_blocks)
  /\ ck_pc' = "done"
  /\ UNCHANGED <<ck_page, ck_blocks>>
  /\ UNCHANGED bvars

NextChunker == CkFlatten \/ CkChunk

SpecChunker == InitChunker /\ [][NextChunker]_vars

\* ------------------------------------------------------------------------
\* Embedding manager (build_wiki_db.py:153-193)
\* A float32 is written as the number it holds (0.0 .. 4.0 as 0 .. 4); a
\* vector is a sequence of them; a blob is a sequence of bytes.
\* One provider response per batch: [kind, v] with kind "raise" (the request
\* or the decoding of its body fails), "flat" (data is one list of numbers)
\* or "matrix" (data is a list of rows).
\* ------------------------------------------------------------------------

\* IEEE-754 single precision bit pattern of 0.0, 1.0, 2.0, 3.0, 4.0
F32Bits(x) ==
  CASE x = 0 -> 0
    [] x = 1 -> 1065353216
    [] x = 2 -> 1073741824
    [] x = 3 -> 1077936128
    [] x = 4 -> 1082130432

\* the four bytes of one float32, little-endian
F32Bytes(x) ==
  LET b == F32Bits(x) IN
  << b % 256, (b \div 256) % 256, (b \div 65536) % 256, (b \div 16777216) % 256 >>

RECURSIVE vec_to_blob_f32(_)
vec_to_blob_f32(vec) ==
  IF vec = <<>> THEN <<>> ELSE F32Bytes(Head(vec)) \o vec_to_blob_f32(Tail(vec))

blob_f32_dim(blob) == Len(blob) \div 4

RECURSIVE SumSquares(_)
SumSquares(vec) == IF vec = <<>> THEN 0 ELSE Head(vec) * Head(vec) + SumSquares(Tail(vec))

\* float(np.linalg.norm(vec)); the vectors used have integral norms
l2_norm_f32(vec) ==
  LET q == SumSquares(vec) IN CHOOSE r \in 0..q : r * r <= q /\ (r + 1) * (r + 1) > q

\* np.asarray(data, dtype=np.float32) followed by the ndim == 1 reshape
AsRows(resp) ==
  IF resp.kind = "raise" THEN [ok |-> FALSE, rows |-> <<>>]
  ELSE IF resp.kind = "flat" THEN [ok |-> TRUE, rows |-> << resp.v >>]
  ELSE IF resp.v = <<>> THEN [ok |-> TRUE, rows |-> << <<>> >>]
  ELSE IF \E k \in 1..Len(resp.v) : Len(resp.v[k]) # Len(resp.v[1])
       THEN [ok |-> FALSE, rows |-> <<>>]
  ELSE [ok |-> TRUE, rows |-> resp.v]

\* the batches of "for i in range(0, len(texts), batch_size)"
NumBatches(n) == (n + BATCH_SIZE - 1) \div BATCH_SIZE

RECURSIVE EmbedBatches(_, _)
EmbedBatches(resps, all_vecs) ==
  IF resps = <<>> THEN [ok |-> TRUE, all_vecs |-> all_vecs]
  ELSE LET a == AsRows(Head(resps)) IN
       IF ~a.ok THEN [ok |-> FALSE, all_vecs |-> <<>>]
       ELSE EmbedBatches(Tail(resps), Append(all_vecs, a.rows))

RECURSIVE VStack(_)
VStack(all_vecs) == IF all_vecs = <<>> THEN <<>> ELSE Head(all_vecs) \o VStack(Tail(all_vecs))

\* embed_texts(texts, model_name): resps[k] answers the k-th batch.
\* ok is FALSE when the call raises; provider_ok tells whether every response
\* was a well-formed matrix of one width (np.vstack of no arrays raises with
\* no response at fault).
embed_texts(texts, resps) ==
  LET e == EmbedBatches(resps, <<>>) IN
  IF ~e.ok THEN [ok |-> FALSE, provider_ok |-> FALSE, dim |-> 0, vectors |-> <<>>]
  ELSE IF e.all_vecs = <<>>
       THEN [ok |-> FALSE, provider_ok |-> TRUE, dim |-> 0, vectors |-> <<>>]
  ELSE IF \E k \in 1..Len(e.all_vecs) : Len(e.all_vecs[k][1]) # Len(e.all_vecs[1][1])
       THEN [ok |-> FALSE, provider_ok |-> FALSE, dim |-> 0, vectors |-> <<>>]
  ELSE LET result == VStack(e.all_vecs) IN
       [ok |-> TRUE, provider_ok |-> TRUE, dim |-> Len(result[1]), vectors |-> result]

\* ------------------------------------------------------------------------
\* The store (build_wiki_db.py:198-306).  db is
\*   [page, chunk, embedding_model, embedding, seq_chunk, seq_model]
\* with the four tables as sets of rows and the two AUTOINCREMENT counters
\* of sqlite_sequence.
\* ------------------------------------------------------------------------
MODEL_NAME == "bge-m3"
COSINE == "cosine"

\* variant: the row is looked up by the wrong column
get_existing_page_ByRevid(d, page_id) ==
  IF \E r \in d.page : r.revid = page_id
  THEN [found |-> TRUE, row |-> CHOOSE r \in d.page : r.revid = page_id]
  ELSE [found |-> FALSE, row |-> [page_id |-> page_id, title |-> <<>>, revid |-> 0]]

\* SELECT page_id, title, revid FROM page WHERE page_id = ?
get_existing_page(d, page_id) ==
  IF \E r \in d.page : r.page_id = page_id
  THEN [found |-> TRUE, row |-> CHOOSE r \in d.page : r.page_id = page_id]
  ELSE [found |-> FALSE, row |-> [page_id |-> page_id, title |-> <<>>, revid |-> 0]]

upsert_page(d, page_id, title, revid) ==
  [d EXCEPT !.page = { r \in d.page : r.page_id # page_id }
                     \cup { [page_id |-> page_id, title |-> title, revid |-> revid] }]

\* DELETE FROM chunk WHERE page_id = ?, with the cascade to embedding
delete_page_children(d, page_id) ==
  LET gone == { c.chunk_id : c \in { c \in d.chunk : c.page_id = page_id } } IN
  [d EXCEPT !.chunk = { c \in d.chunk : c.page_id # page_id },
            !.embedding = { e \in d.embedding : e.chunk_id \notin gone }]

\* a row violating UNIQUE(page_id, chunk_index) makes the INSERT raise
RECURSIVE InsertChunkRows(_, _, _, _)
InsertChunkRows(d, page_id, chunks, chunk_ids) ==
  IF chunks = <<>> THEN [ok |-> TRUE, db |-> d, chunk_ids |-> chunk_ids]
  ELSE LET c == Head(chunks)
           id == d.seq_chunk + 1
           row == [chunk_id |-> id, page_id |-> page_id, chunk_index |-> c.chunk_index,
                   section |-> c.section, block_type |-> c.block_type, text |-> c.text]
       IN IF \E r \in d.chunk : r.page_id = page_id /\ r.chunk_index = c.chunk_index
          THEN [ok |-> FALSE, db |-> d, chunk_ids |-> chunk_ids]
          ELSE InsertChunkRows([d EXCEPT !.chunk = @ \cup {row}, !.seq_chunk = id],
                               page_id, Tail(chunks), Append(chunk_ids, id))

insert_chunks(d, page_id, chunks) == InsertChunkRows(d, page_id, chunks, <<>>)

ensure_model_row(d, model_name, dim, distance_metric) ==
  IF \E m \in d.embedding_model : m.name = model_name
  THEN LET old == CHOOSE m \in d.embedding_model : m.name = model_name IN
       [db |-> [d EXCEPT !.embedding_model =
                  (@ \ {old}) \cup { [old EXCEPT !.dim = dim, !.distance_metric = distance_metric] }],
        model_id |-> old.model_id]
  ELSE LET id == d.seq_model + 1 IN
       [db |-> [d EXCEPT !.embedding_model =
                  @ \cup { [model_id |-> id, name |-> model_name, dim |-> dim,
                            distance_metric |-> distance_metric] },
                  !.seq_model = id],
        model_id |-> id]

\* rows = zip(chunk_ids, vectors); executemany of the upsert
insert_embeddings(d, model_id, chunk_ids, vectors) ==
  LET n == Min(Len(chunk_ids), Len(vectors))
      rows == { [chunk_id |-> chunk_ids[k], model_id |-> model_id,
                 vec |-> vec_to_blob_f32(vectors[k]), norm |-> l2_norm_f32(vectors[k])] : k \in 1..n }
      keys == { <<r.chunk_id, r.model_id>> : r \in rows }
  IN [d EXCEPT !.embedding =
        { e \in d.embedding : <<e.chunk_id, e.model_id>> \notin keys } \cup rows]

\* ------------------------------------------------------------------------
\* Page JSON parsing (build_wiki_db.py:50-54, 311-334)
\* A file is [malformed, pageid, revid, title, sections]: malformed files
\* make json.load raise.  A JSON value given to int() is [k, v] with k "int"
\* (a number), "numstr" (a string of digits), "text" (another string) or
\* "none" (key absent).
\* ------------------------------------------------------------------------
safe_int(x) ==
  IF x.k \in {"int", "numstr"} THEN [some |-> TRUE, v |-> x.v] ELSE [some |-> FALSE, v |-> 0]

extract_page_identity(page) ==
  LET page_id == safe_int(page.pageid)
      revid == safe_int(page.revid)
      title == OrElse(page.title, Unknown)
  IN [ok |-> page_id.some /\ revid.some, page_id |-> page_id.v, title |-> title,
      revid |-> revid.v]

\* ------------------------------------------------------------------------
\* One iteration of the loop of build_database (build_wiki_db.py:351-384)
\* ------------------------------------------------------------------------

\* variant: existing[0] compared instead of existing[2]
UnchangedComparesPageId(existing, revid) == existing.found /\ existing.row.page_id = revid

\* "existing and existing[2] == revid"
Unchanged(existing, revid) == existing.found /\ existing.row.revid = revid

\* a statement of the transaction that may fail in the store
Faults == {"none", "begin", "upsert_page", "insert_chunks", "ensure_model_row", "commit"}

Raised(d, began, w, exc) ==
  [outcome |-> "raise", db |-> d, began |-> began, begins |-> IF began THEN 1 ELSE 0,
   writes |-> w, exc |-> exc]

Committing(d, fault, w) ==
  IF fault = "commit" THEN Raised(d, TRUE, w, "store")
  ELSE [outcome |-> "commit", db |-> d, began |-> TRUE, begins |-> 1, writes |-> w,
        exc |-> "none"]

\* the try body for one file: what it did to the connection and how it ended
\* ("skip": continue at line 361, "commit": line 380 reached, "raise": an
\* exception reached the handler; began says whether BEGIN IMMEDIATE had run;
\* exc says where the exception came from: "input" (the file or its identity),
\* "store" (a statement of the transaction), "provider" (the request or its
\* response), "embed" (embed_texts itself, with no response at fault))
TryBody(d, doc, embed, fault, resps) ==
  IF doc.malformed THEN Raised(d, FALSE, 0, "input")
  ELSE LET id == extract_page_identity(doc) IN
  IF ~id.ok THEN Raised(d, FALSE, 0, "input")
  ELSE LET existing == get_existing_page(d, id.page_id) IN
  IF Unchanged(existing, id.revid)
  THEN [outcome |-> "skip", db |-> d, began |-> FALSE, begins |-> 0, writes |-> 0,
        exc |-> "none"]
  ELSE IF fault = "begin" THEN Raised(d, FALSE, 0, "store")
  ELSE IF fault = "upsert_page" THEN Raised(d, TRUE, 0, "store")
  ELSE LET d1 == upsert_page(d, id.page_id, id.title, id.revid)
           d2 == delete_page_children(d1, id.page_id)
           blocks == flatten_sections_to_blocks(doc)
           chunks == chunk_blocks(blocks)
           ins == insert_chunks(d2, id.page_id, chunks)
           w3 == 2 + Len(chunks)
       IN
  IF fault = "insert_chunks" THEN Raised(d2, TRUE, 2, "store")
  ELSE IF ~ins.ok THEN Raised(ins.db, TRUE, w3, "store")
  ELSE IF ~embed THEN Committing(ins.db, fault, w3)
  ELSE LET texts == [k \in 1..Len(chunks) |-> chunks[k].text]
           e == embed_texts(texts, resps)
       IN
  IF ~e.ok THEN Raised(ins.db, TRUE, w3, IF e.provider_ok THEN "embed" ELSE "provider")
  ELSE IF fault = "ensure_model_row" THEN Raised(ins.db, TRUE, w3, "store")
  ELSE LET m == ensure_model_row(ins.db, MODEL_NAME, e.dim, COSINE)
           d5 == insert_embeddings(m.db, m.model_id, ins.chunk_ids, e.vectors)
       IN Committing(d5, fault, w3 + 2)

\* conn.commit() and conn.execute("ROLLBACK;") on a connection whose
\* transaction started from saved and has reached working
Commit(saved, working) == working

\* variant: the handler leaves the writes of the transaction in place
RollbackKeepsWrites(saved, working) == working

Rollback(saved, working) == saved

\* ------------------------------------------------------------------------
\* Inputs of the builds
\* ------------------------------------------------------------------------
IntVal(n) == [k |-> "int", v |-> n]
NoVal == [k |-> "none", v |-> 0]

BodyTwoChunks ==
  << [heading |-> Rep("H", 5),
      blocks |-> << [type |-> TypeP, text |-> Rep("a", 1100)],
                    [type |-> TypeUl, text |-> Rep("b", 200)],
                    [type |-> TypeP, text |-> Rep("c", 1100)] >>] >>

BodyOneChunk ==
  << [heading |-> None, blocks |-> << [type |-> None, text |-> Rep("d", 400)] >>] >>

Doc(pageid, revid, title, sections) ==
  [malformed |-> FALSE, pageid |-> pageid, revid |-> revid, title |-> title,
   sections |-> sections]

DocChoices ==
  { Doc(IntVal(1), IntVal(1), Rep("T", 3), BodyTwoChunks),
    Doc(IntVal(1), IntVal(2), Rep("T", 3), BodyOneChunk),
    Doc([k |-> "numstr", v |-> 2], IntVal(1), None, BodyTwoChunks),
    Doc(IntVal(3), IntVal(3), Rep("V", 2), <<>>),
    Doc(IntVal(2), NoVal, Rep("U", 3), BodyOneChunk),
    Doc([k |-> "text", v |-> 0], IntVal(1), Rep("W", 3), BodyOneChunk),
    [malformed |-> TRUE, pageid |-> NoVal, revid |-> NoVal, title |-> None,
     sections |-> <<>>] }

RespChoices ==
  { [kind |-> "raise", v |-> <<>>],
    [kind |-> "flat", v |-> <<3, 4>>],
    [kind |-> "matrix", v |-> <<>>],
    [kind |-> "matrix", v |-> << <<3, 4>> >>],
    [kind |-> "matrix", v |-> << <<3, 4>>, <<4, 3>> >>],
    [kind |-> "matrix", v |-> << <<3, 4>>, <<4, 3>>, <<0, 0>> >>],
    [kind |-> "matrix", v |-> << <<1>>, <<2>> >>],
    [kind |-> "matrix", v |-> << <<3, 4>>, <<1>> >>] }

\* the number of provider requests the page of one file causes
RequestsFor(doc) ==
  NumBatches(Len(chunk_blocks(flatten_sections_to_blocks(doc))))

\* every way the try body can go for the file at position i
Results ==
  { TryBody(db, files[i], do_embed, fault, resps) :
      fault \in Faults, resps \in [1..RequestsFor(files[i]) -> RespChoices] }

\* ------------------------------------------------------------------------
\* build_database (build_wiki_db.py:339-388), run on the same folder
\* MaxRuns times
\* ------------------------------------------------------------------------
Init ==
  /\ ck_page = [sections |-> <<>>]
  /\ ck_blocks = <<>>
  /\ ck_chunks = <<>>
  /\ ck_pc = "idle"
  /\ files \in SeqsUpTo(DocChoices, MaxFiles)
  /\ do_embed \in BOOLEAN
  /\ db = EmptyDb
  /\ run = 1
  /\ i = 1
  /\ pc = "loop"
  /\ updated_pages = 0
  /\ skipped_pages = 0
  /\ errored = 0
  /\ stmts = [begins |-> 0, writes |-> 0]
  /\ prev = [db |-> EmptyDb, clean |-> FALSE]
  /\ last_exc = "none"

InLoop == pc = "loop" /\ files # <<>> /\ i <= Len(files)

Ran(r) == [begins |-> stmts.begins + r.begins, writes |-> stmts.writes + r.writes]

\* "if not files: ... return"
NoFiles ==
  /\ pc = "loop"
  /\ files = <<>>
  /\ pc' = "done"
  /\ UNCHANGED <<files, do_embed, db, run, i, updated_pages, skipped_pages, errored,
                 stmts, prev, last_exc>>
  /\ UNCHANGED ckvars

\* the stored revid is the incoming one: skipped_pages += 1; continue
SkipPage ==
  /\ InLoop
  /\ \E r \in Results :
       /\ r.outcome = "skip"
       /\ db' = r.db
       /\ stmts' = Ran(r)
       /\ last_exc' = r.exc
  /\ skipped_pages' = skipped_pages + 1
  /\ i' = i + 1
  /\ UNCHANGED <<files, do_embed, run, pc, updated_pages, errored, prev>>
  /\ UNCHANGED ckvars

\* the page is rebuilt and committed: updated_pages += 1
RebuildPage ==
  /\ InLoop
  /\ \E r \in Results :
       /\ r.outcome = "commit"
       /\ db' = Commit(db, r.db)
       /\ stmts' = Ran(r)
       /\ last_exc' = r.exc
  /\ updated_pages' = updated_pages + 1
  /\ i' = i + 1
  /\ UNCHANGED <<files, do_embed, run, pc, skipped_pages, errored, prev>>
  /\ UNCHANGED ckvars

\* an exception inside the transaction: ROLLBACK, print, next file
RollbackPage ==
  /\ InLoop
  /\ \E r \in Results :
       /\ r.outcome = "raise"
       /\ r.began
       /\ db' = Rollback(db, r.db)
       /\ stmts' = Ran(r)
       /\ last_exc' = r.exc
  /\ errored' = errored + 1
  /\ i' = i + 1
  /\ UNCHANGED <<files, do_embed, run, pc, updated_pages, skipped_pages, prev>>
  /\ UNCHANGED ckvars

\* an exception before BEGIN IMMEDIATE took effect: the handler's ROLLBACK
\* raises sqlite3.OperationalError (no transaction is active), which leaves
\* build_database
AbortRun ==
  /\ InLoop
  /\ \E r \in Results :
       /\ r.outcome = "raise"
       /\ ~r.began
       /\ db' = r.db
       /\ stmts' = Ran(r)
       /\ last_exc' = r.exc
  /\ pc' = "crashed"
  /\ UNCHANGED <<files, do_embed, run, i, updated_pages, skipped_pages, errored, prev>>
  /\ UNCHANGED ckvars

\* the loop is over: conn.close() and the summary
FinishRun ==
  /\ pc = "loop"
  /\ files # <<>>
  /\ i > Len(files)
  /\ pc' = "done"
  /\ UNCHANGED <<files, do_embed, db, run, i, updated_pages, skipped_pages, errored,
                 stmts, prev, last_exc>>
  /\ UNCHANGED ckvars

\* build_database is invoked again on the same folder and store
NextRun ==
  /\ pc \in {"done", "crashed"}
  /\ run < MaxRuns
  /\ prev' = [db |-> db, clean |-> pc = "done" /\ errored = 0]
  /\ run' = run + 1
  /\ i' = 1
  /\ pc' = "loop"
  /\ updated_pages' = 0
  /\ skipped_pages' = 0
  /\ errored' = 0
  /\ stmts' = [begins |-> 0, writes |-> 0]
  /\ last_exc' = "none"
  /\ UNCHANGED <<files, do_embed, db>>
  /\ UNCHANGED ckvars

Next ==
  \/ NoFiles
  \/ SkipPage
  \/ RebuildPage
  \/ RollbackPage
  \/ AbortRun
  \/ FinishRun
  \/ NextRun

Spec == Init /\ [][Next]_vars

\* ------------------------------------------------------------------------
\* Properties
\* ------------------------------------------------------------------------

\* the text of a string with its whitespace characters removed
NonWS(s) == Canon(SelectSeq(s, LAMBDA r : r[1] \notin WS))

RECURSIVE ConcatAll(_)
ConcatAll(texts) ==
  IF texts = <<>> THEN <<>> ELSE Concat(Head(texts), ConcatAll(Tail(texts)))

\* the raw block texts of a page document, in document order
RECURSIVE RawTexts(_)
RawTexts(secs) ==
  IF secs = <<>> THEN <<>>
  ELSE [k \in 1..Len(Head(secs).blocks) |-> OrElse(Head(secs).blocks[k].text, <<>>)]
       \o RawTexts(Tail(secs))

ChunkTexts(chunks) == [k \in 1..Len(chunks) |-> chunks[k].text]

\* C1: every chunk returned by chunk_blocks has text length
\* <= MAX_CHARS_PER_CHUNK.
C1_ChunkWithinMax ==
  ck_pc = "done" =>
    \A k \in 1..Len(ck_chunks) : StrLen(ck_chunks[k].text) <= MAX_CHARS_PER_CHUNK

\* C2: a step of build_database in which the page raised (the error is
\* printed after a rollback, or the run is left through the handler) leaves
\* the store exactly as it was before the page was attempted.
C2_ErrorLeavesStoreUntouched ==
  [][(errored' = errored + 1 \/ (pc = "loop" /\ pc' = "crashed")) => db' = db]_vars

\* a page that already has stored chunks was attempted again, wrote inside
\* its transaction and raised
C2_Witness ==
  /\ errored > 0
  /\ stmts.writes > 0
  /\ updated_pages = 0
  /\ db.chunk # {}

\* C3: an error on one page never stops the run: build_database goes on
\* with the remaining documents and reaches the end of the run.
C3_ErrorNeverStopsRun == pc # "crashed"

\* no two well-formed documents of the folder give one page id two revids
ConsistentRevids(fs) ==
  \A a, b \in 1..Len(fs) :
    LET ia == extract_page_identity(fs[a])
        ib == extract_page_identity(fs[b])
    IN (~fs[a].malformed /\ ~fs[b].malformed /\ ia.ok /\ ib.ok /\ ia.page_id = ib.page_id)
         => ia.revid = ib.revid

\* C4 (as claimed): the second run over the same documents executes no
\* insert, update or delete, leaves the rows of the first run in place and
\* skips every document.
C4_SecondRunIdempotent ==
  (run = 2 /\ pc \in {"done", "crashed"}) =>
    /\ pc = "done"
    /\ stmts.writes = 0
    /\ db = prev.db
    /\ skipped_pages = Len(files)

\* C4 (amended): when the preceding run committed or skipped every document
\* (none errored) and no page id occurs with two different revids, the next
\* run opens no transaction, executes no insert, update or delete, keeps the
\* stored rows and ends with the skip counter equal to the number of
\* documents.
C4_CleanRunIdempotent ==
  (run >= 2 /\ prev.clean /\ ConsistentRevids(files)) =>
    /\ pc # "crashed"
    /\ errored = 0
    /\ updated_pages = 0
    /\ stmts.begins = 0
    /\ stmts.writes = 0
    /\ db = prev.db
    /\ (pc = "done" => skipped_pages = Len(files))

C4_Witness ==
  /\ run = 2
  /\ pc = "done"
  /\ prev.clean
  /\ ConsistentRevids(files)
  /\ Len(files) >= 2
  /\ skipped_pages = Len(files)
  /\ Cardinality(db.page) >= 2
  /\ db.chunk # {}

\* the file at position i is readable, has an integer identity, and its
\* revid is the one stored for its page id
SameRevidStored ==
  /\ InLoop
  /\ ~files[i].malformed
  /\ LET id == extract_page_identity(files[i]) IN
       /\ id.ok
       /\ \E r \in db.page : r.page_id = id.page_id /\ r.revid = id.revid

\* C5: processing a document whose revid equals the stored revid of its
\* page leaves every table unchanged, opens no transaction, adds one to the
\* skip counter and leaves the updated counter alone.
C5_SameRevidSkips ==
  [][SameRevidStored =>
       /\ db' = db
       /\ stmts' = stmts
       /\ skipped_pages' = skipped_pages + 1
       /\ updated_pages' = updated_pages
       /\ errored' = errored
       /\ i' = i + 1
       /\ pc' = pc]_vars

\* a document was skipped while chunks are stored
C5_Witness ==
  /\ skipped_pages > 0
  /\ db.chunk # {}
  /\ updated_pages > 0

\* C6: every chunk returned by chunk_blocks other than the first has text
\* length >= MIN_CHARS_PER_CHUNK.
C6_OnlyFirstChunkMayBeSmall ==
  ck_pc = "done" =>
    \A k \in 2..Len(ck_chunks) : StrLen(ck_chunks[k].text) >= MIN_CHARS_PER_CHUNK

\* the post-pass merged a small chunk and more than one chunk is returned
C6_Witness ==
  /\ ck_pc = "done"
  /\ Len(ck_chunks) >= 2
  /\ Len(PackedChunks(ck_blocks)) > Len(ck_chunks)

\* C7: for every page the stored chunk_index values are exactly
\* {0, ..., n-1}, n being the number of chunk rows stored for the page.
C7_ChunkIndexContiguous ==
  \A p \in db.page :
    LET rows == { c \in db.chunk : c.page_id = p.page_id } IN
    { c.chunk_index : c \in rows } = 0..(Cardinality(rows) - 1)

\* a page rebuilt after earlier builds holds at least two chunks
C7_Witness ==
  \E c \in db.chunk : c.chunk_index >= 1 /\ c.chunk_id > 3

\* C8: the chunk texts read in chunk_index order hold the non-whitespace
\* characters of the input blocks, each exactly once and in input order.
C8_OrderAndContentPreserved ==
  ck_pc = "done" =>
    /\ \A k \in 1..Len(ck_chunks) : ck_chunks[k].chunk_index = k - 1
    /\ NonWS(ConcatAll(ChunkTexts(ck_chunks))) = NonWS(ConcatAll(RawTexts(ck_page.sections)))
    /\ NonWS(ConcatAll(ChunkTexts(ck_chunks)))
         = NonWS(ConcatAll([k \in 1..Len(ck_blocks) |-> ck_blocks[k].text]))

\* several blocks were packed, a block was split and a small chunk merged
C8_Witness ==
  /\ ck_pc = "done"
  /\ Len(ck_blocks) >= 3
  /\ Len(ck_chunks) >= 3
  /\ Len(PackedChunks(ck_blocks)) > Len(ck_chunks)
  /\ \E k \in 1..Len(ck_blocks) : StrLen(ck_blocks[k].text) > MAX_CHARS_PER_CHUNK

\* C9: with embedding enabled every committed chunk row has exactly one
\* embedding row, whatever the provider returned.
C9_ChunksAllEmbedded ==
  do_embed =>
    \A c \in db.chunk : Cardinality({ e \in db.embedding : e.chunk_id = c.chunk_id }) = 1

\* C10: every stored vector is 4 bytes times the dim of its model row long.
C10_VecLengthMatchesDim ==
  \A e \in db.embedding :
    \E m \in db.embedding_model : m.model_id = e.model_id /\ Len(e.vec) = 4 * m.dim

\* the page flattens to one block, free of whitespace and longer than the
\* maximum
OneOversizedBlock ==
  /\ Len(ck_blocks) = 1
  /\ NonWS(ck_blocks[1].text) = ck_blocks[1].text
  /\ StrLen(ck_blocks[1].text) > MAX_CHARS_PER_CHUNK

\* C11: a page whose only content is one whitespace-free block of
\* L > MAX_CHARS_PER_CHUNK characters yields ceil(L / MAX_CHARS_PER_CHUNK)
\* chunks, all of the maximum length but the last, which holds the
\* remainder: the post-pass merges no slice into its neighbour.
C11_SlicesNeverMerged ==
  (ck_pc = "done" /\ OneOversizedBlock) =>
    LET L == StrLen(ck_blocks[1].text)
        n == (L + MAX_CHARS_PER_CHUNK - 1) \div MAX_CHARS_PER_CHUNK
    IN /\ Len(ck_chunks) = n
       /\ \A k \in 1..(n - 1) : StrLen(ck_chunks[k].text) = MAX_CHARS_PER_CHUNK
       /\ StrLen(ck_chunks[n].text) = L - (n - 1) * MAX_CHARS_PER_CHUNK

\* C13: every chunk returned for a page has a non-empty section label,
\* whatever the headings of the input (absent, empty or whitespace only) and
\* on both the flush path and the slice path.
C13_SectionNeverEmpty ==
  ck_pc = "done" =>
    \A k \in 1..Len(ck_chunks) : ck_chunks[k].section # <<>> /\ ck_chunks[k].section # None

\* the file at position i is readable, has an integer identity, and no row
\* is stored for its page id
NewPageNext ==
  /\ InLoop
  /\ ~files[i].malformed
  /\ extract_page_identity(files[i]).ok
  /\ \A r \in db.page : r.page_id # extract_page_identity(files[i]).page_id

\* C12: processing a document with integer pageid and revid and no stored
\* row, when neither the provider nor the store fails, commits the page row
\* with the incoming revid together with the document's chunks and counts
\* the page as updated, with embedding enabled or not and also for a
\* document with no blocks.
C12_NewPageIsBuilt ==
  [][(NewPageNext /\ (i' # i \/ pc' # pc) /\ last_exc' \notin {"store", "provider"}) =>
       LET id == extract_page_identity(files[i])
           chunks == chunk_blocks(flatten_sections_to_blocks(files[i]))
           rows == { c \in db'.chunk : c.page_id = id.page_id }
       IN /\ pc' = "loop"
          /\ i' = i + 1
          /\ updated_pages' = updated_pages + 1
          /\ errored' = errored
          /\ \E r \in db'.page : r.page_id = id.page_id /\ r.revid = id.revid
          /\ { <<c.chunk_index, c.text>> : c \in rows }
               = { <<chunks[k].chunk_index, chunks[k].text>> : k \in 1..Len(chunks) }]_vars

====
